---- MODULE Spec2Model ----
(***************************************************************************)
(* Model of src/OpenGL/OpenGL.cpp: the animated-triangle render harness.   *)
(* main() is a single sequential thread; pc is its position.  The GLFW     *)
(* and OpenGL libraries are the environment: window creation, function     *)
(* loading, shader compilation, linking, the key state, close events and   *)
(* the clock are nondeterministic inputs.                                  *)
(*                                                                         *)
(* Numbers.  Time is counted in ticks, TicksPerSec ticks to the second.    *)
(* The float offsetX is kept in fixed point, Unit steps to 1.0f, with      *)
(* Unit == SpeedDen * TicksPerSec so that speed * deltaTime is exact.      *)
(***************************************************************************)
EXTENDS Integers, Sequences, FiniteSets, TLC

\* ---- bounds of the model ----
TicksPerSec == 2        \* clock resolution
MaxAdvance  == 1        \* largest clock advance seen by one glfwGetTime()/sleep
MaxFrames   == 4        \* cap on the number of loop iterations explored
LogOver     == 1        \* how far a driver log may exceed the infoLog buffer

\* ---- program constants ----
SpeedNum    == 1        \* float speed = 0.5f
SpeedDen    == 2
targetFPS   == 60       \* const double targetFPS = 60.0
InfoLogSize == 512      \* char infoLog[512]

Unit == SpeedDen * TicksPerSec      \* 1.0f in offset steps
Two  == 2 * Unit                    \* 2.0f

Shaders  == {"vertexShader", "fragmentShader"}
Handles  == {"vertexShader", "fragmentShader", "shaderProgram", "VAO", "VBO"}
Compiled == {"vertexShader", "fragmentShader", "shaderProgram"}

\* lengths of the diagnostic log the driver may hold for a failed object
LogLens == {0, InfoLogSize - 1, InfoLogSize + LogOver}

VARIABLES
    pc,           \* position of main()
    window,       \* "unset" | "null" | "valid"   (GLFWwindow* window)
    glad,         \* "unset" | "failed" | "loaded"
    shouldClose,  \* the window's close flag
    returned,     \* main() has returned
    exitStatus,   \* value returned by main()
    stderr,       \* sequence of [tag, log] records written to std::cerr
    created,      \* handle -> number of glCreate*/glGen* calls
    deleted,      \* handle -> number of glDelete* calls
    attached,     \* shader handles attached to shaderProgram
    badUse,       \* handles passed to a GL call after deletion
    status,       \* object -> "none" | "ok" | "failed"  (compile / link status)
    driverLog,    \* object -> length of the driver's info log
    success,      \* int success
    infoLog,      \* number of characters held by char infoLog[512]
    compiles,     \* number of glCompileShader calls
    released,     \* order of the release calls
    terminates,   \* number of glfwTerminate calls
    now,          \* glfwGetTime() clock
    lastTime, currentTime,
    offsetX,
    unwrapped,    \* offsetX as it stood between the addition and the wrap test
    uniform,      \* x value last passed to glUniform2f(offsetLocation, ..)
    frames,       \* loop iterations begun
    frameWrites,  \* uniform values written in the current iteration
    frameDraws    \* uniform value in force at each draw of the current iteration

vars == <<pc, window, glad, shouldClose, returned, exitStatus, stderr, created,
          deleted, attached, badUse, status, driverLog, success, infoLog,
          compiles, released, terminates, now, lastTime, currentTime, offsetX,
          unwrapped, uniform, frames, frameWrites, frameDraws>>

procVars  == <<window, glad, shouldClose, returned, exitStatus>>
glVars    == <<created, deleted, attached, badUse>>
shVars    == <<status, driverLog, success, infoLog, compiles>>
endVars   == <<released, terminates>>
timeVars  == <<now, lastTime, currentTime>>
frameVars == <<offsetX, unwrapped, uniform, frames, frameWrites, frameDraws>>

Init ==
    /\ pc = "init"
    /\ window = "unset" /\ glad = "unset"
    /\ shouldClose = FALSE
    /\ returned = FALSE /\ exitStatus = 0
    /\ stderr = <<>>
    /\ created = [h \in Handles |-> 0]
    /\ deleted = [h \in Handles |-> 0]
    /\ attached = {}
    /\ badUse = {}
    /\ status = [o \in Compiled |-> "none"]
    /\ driverLog = [o \in Compiled |-> 0]
    /\ success = 0 /\ infoLog = 0
    /\ compiles = 0
    /\ released = <<>>
    /\ terminates = 0
    /\ now = 0 /\ lastTime = 0 /\ currentTime = 0
    /\ offsetX = 0 /\ unwrapped = 0 /\ uniform = 0
    /\ frames = 0
    /\ frameWrites = <<>> /\ frameDraws = <<>>

\* ---- helpers ----

\* a handle handed to bind/use/attach/uniform/draw: remembered if already deleted
Touch(bad, hs) == bad \cup {h \in hs : deleted[h] > 0}

\* glGetShaderInfoLog / glGetProgramInfoLog(obj, 512, nullptr, infoLog):
\* at most bufSize - 1 characters and the terminating NUL
GetInfoLog(len) == IF len < InfoLogSize THEN len ELSE InfoLogSize - 1

Report(tag, len) == [tag |-> tag, log |-> len]

\* ---- initialisation: lines 27-48 ----

\* glfwInit, window hints, glfwCreateWindow and the null test (lines 28-40)
CreateWindow ==
    /\ pc = "init"
    /\ \E ok \in BOOLEAN :
         IF ok
         THEN /\ window' = "valid"
              /\ pc' = "loadgl"
              /\ UNCHANGED <<returned, exitStatus, stderr, terminates, released>>
         ELSE /\ window' = "null"
              /\ stderr' = Append(stderr, Report("Failed to create GLFW window", 0))
              /\ terminates' = terminates + 1
              /\ released' = Append(released, "glfw")
              /\ returned' = TRUE
              /\ exitStatus' = -1
              /\ pc' = "returned"
    /\ UNCHANGED <<glad, shouldClose, glVars, shVars, timeVars, frameVars>>

\* the same step with the failure return forgotten
LoadGLFallsThrough ==
    /\ pc = "loadgl"
    /\ \E ok \in BOOLEAN :
         IF ok
         THEN /\ glad' = "loaded"
              /\ UNCHANGED stderr
         ELSE /\ glad' = "failed"
              /\ stderr' = Append(stderr, Report("Failed to initialize GLAD", 0))
    /\ pc' = "vshader"
    /\ UNCHANGED <<returned, exitStatus>>
    /\ UNCHANGED <<window, shouldClose, glVars, shVars, endVars, timeVars, frameVars>>

\* glfwMakeContextCurrent, gladLoadGLLoader and its test (lines 41-48);
\* on success also glViewport and the resize callback registration (51-52)
LoadGL ==
    /\ pc = "loadgl"
    /\ \E ok \in BOOLEAN :
         IF ok
         THEN /\ glad' = "loaded"
              /\ pc' = "vshader"
              /\ UNCHANGED <<returned, exitStatus, stderr>>
         ELSE /\ glad' = "failed"
              /\ stderr' = Append(stderr, Report("Failed to initialize GLAD", 0))
              /\ returned' = TRUE
              /\ exitStatus' = -1
              /\ pc' = "returned"
    /\ UNCHANGED <<window, shouldClose, glVars, shVars, endVars, timeVars, frameVars>>

\* ---- shaders and program: lines 77-121 ----

\* glCompileShader: the driver's verdict and the log it keeps
CompileOutcome(obj, ok, len) ==
    /\ status' = [status EXCEPT ![obj] = IF ok THEN "ok" ELSE "failed"]
    /\ driverLog' = [driverLog EXCEPT ![obj] = IF ok THEN 0 ELSE len]

\* glCreateShader(GL_VERTEX_SHADER), glShaderSource, glCompileShader,
\* glGetShaderiv(GL_COMPILE_STATUS) and the report (lines 78-89)
CompileVertex ==
    /\ pc = "vshader"
    /\ created' = [created EXCEPT !["vertexShader"] = @ + 1]
    /\ compiles' = compiles + 1
    /\ \E ok \in BOOLEAN, len \in LogLens :
         /\ CompileOutcome("vertexShader", ok, len)
         /\ success' = IF ok THEN 1 ELSE 0
         /\ IF ok
            THEN UNCHANGED <<infoLog, stderr>>
            ELSE /\ infoLog' = GetInfoLog(len)
                 /\ stderr' = Append(stderr,
                        Report("ERROR::VERTEX_SHADER::COMPILATION_FAILED", GetInfoLog(len)))
    /\ pc' = "fshader"
    /\ UNCHANGED <<procVars, deleted, attached, badUse, endVars, timeVars, frameVars>>

\* glCreateShader(GL_FRAGMENT_SHADER), glShaderSource, glCompileShader
\* (lines 103-105); the compile status is not queried
CompileFragment ==
    /\ pc = "fshader"
    /\ created' = [created EXCEPT !["fragmentShader"] = @ + 1]
    /\ compiles' = compiles + 1
    /\ \E ok \in BOOLEAN, len \in LogLens :
         CompileOutcome("fragmentShader", ok, len)
    /\ pc' = "link"
    /\ UNCHANGED <<procVars, stderr, deleted, attached, badUse, success, infoLog,
                   endVars, timeVars, frameVars>>

\* glCreateProgram, two glAttachShader, glLinkProgram,
\* glGetProgramiv(GL_LINK_STATUS) and the report (lines 108-118).
\* A program with a stage that failed to compile cannot link.
LinkProgram ==
    /\ pc = "link"
    /\ created' = [created EXCEPT !["shaderProgram"] = @ + 1]
    /\ attached' = attached \cup Shaders
    /\ badUse' = Touch(badUse, Shaders)
    /\ \E ok \in BOOLEAN, len \in LogLens :
         /\ ok => \A s \in Shaders : status[s] = "ok"
         /\ CompileOutcome("shaderProgram", ok, len)
         /\ success' = IF ok THEN 1 ELSE 0
         /\ IF ok
            THEN UNCHANGED <<infoLog, stderr>>
            ELSE /\ infoLog' = GetInfoLog(len)
                 /\ stderr' = Append(stderr,
                        Report("ERROR::SHADER_PROGRAM::LINKING_FAILED", GetInfoLog(len)))
    /\ pc' = "delshaders"
    /\ UNCHANGED <<procVars, deleted, compiles, endVars, timeVars, frameVars>>

\* the handles given to glDeleteShader, in order (lines 120-121)
DeletedShadersTwice == <<"vertexShader", "vertexShader">>
DeletedShaders == <<"vertexShader", "fragmentShader">>

RECURSIVE DeleteAll(_, _)
DeleteAll(del, hs) ==
    IF hs = <<>> THEN del
    ELSE DeleteAll([del EXCEPT ![Head(hs)] = @ + 1], Tail(hs))

\* glDeleteShader(vertexShader); glDeleteShader(fragmentShader)
DeleteShaders ==
    /\ pc = "delshaders"
    /\ deleted' = DeleteAll(deleted, DeletedShaders)
    /\ pc' = "buffers"
    /\ UNCHANGED <<procVars, stderr, created, attached, badUse, shVars, endVars,
                   timeVars, frameVars>>

\* ---- buffers and uniform location: lines 123-149 ----

\* glGenVertexArrays, glGenBuffers, glBindVertexArray, glBindBuffer,
\* glBufferData, attribute pointers (lines 125-138)
SetupBuffers ==
    /\ pc = "buffers"
    /\ created' = [created EXCEPT !["VAO"] = @ + 1, !["VBO"] = @ + 1]
    /\ badUse' = Touch(badUse, {"VAO", "VBO"})
    /\ pc' = "locate"
    /\ UNCHANGED <<procVars, stderr, deleted, attached, shVars, endVars, timeVars,
                   frameVars>>

\* glfwGetTime(): the clock never runs backwards
ClockReads == now .. now + MaxAdvance

\* glUseProgram, glGetUniformLocation, offsetX = 0.0f,
\* lastTime = glfwGetTime() (lines 141-149)
LocateUniform ==
    /\ pc = "locate"
    /\ badUse' = Touch(badUse, {"shaderProgram"})
    /\ offsetX' = 0
    /\ \E t \in ClockReads : now' = t /\ lastTime' = t
    /\ pc' = "looptest"
    /\ UNCHANGED <<procVars, stderr, created, deleted, attached, shVars, endVars,
                   currentTime, unwrapped, uniform, frames, frameWrites, frameDraws>>

\* ---- render loop: lines 151-200 ----

\* while (!glfwWindowShouldClose(window))
LoopNeverEnds(close) == TRUE
LoopCondition(close) == ~close

\* the loop test (line 152): enter the body or leave for the cleanup
LoopTest ==
    /\ pc = "looptest"
    /\ IF LoopCondition(shouldClose)
       THEN /\ frames < MaxFrames
            /\ frames' = frames + 1
            /\ frameWrites' = <<>>
            /\ frameDraws' = <<>>
            /\ pc' = "input"
       ELSE /\ pc' = "cleanup"
            /\ UNCHANGED <<frames, frameWrites, frameDraws>>
    /\ UNCHANGED <<procVars, stderr, glVars, shVars, endVars, timeVars, offsetX, unwrapped,
                   uniform>>

\* processInput (lines 19-23): Escape held down requests the close
processInput(escapePressed) == IF escapePressed THEN TRUE ELSE shouldClose

ProcessInput ==
    /\ pc = "input"
    /\ \E escapePressed \in BOOLEAN : shouldClose' = processInput(escapePressed)
    /\ pc' = "timing"
    /\ UNCHANGED <<window, glad, returned, exitStatus, stderr, glVars, shVars,
                   endVars, timeVars, frameVars>>

\* currentTime = glfwGetTime(); deltaTime = currentTime - lastTime;
\* lastTime = currentTime; offsetX += speed * (float)deltaTime  (lines 157-162)
Advance ==
    /\ pc = "timing"
    /\ \E t \in ClockReads :
         LET deltaTime == t - lastTime IN
         /\ now' = t
         /\ currentTime' = t
         /\ lastTime' = t
         /\ offsetX' = offsetX + SpeedNum * deltaTime
         /\ unwrapped' = offsetX + SpeedNum * deltaTime
    /\ pc' = "wrap"
    /\ UNCHANGED <<procVars, stderr, glVars, shVars, endVars, uniform, frames,
                   frameWrites, frameDraws>>

\* if (offsetX >= 1.0f) offsetX = -1.0f   (lines 163-164)
WrapStrict(x) == IF x > Unit THEN -Unit ELSE x
WrapKeepsOvershoot(x) == IF x >= Unit THEN x - Two ELSE x
Wrap(x) == IF x >= Unit THEN -Unit ELSE x

WrapOffset ==
    /\ pc = "wrap"
    /\ offsetX' = Wrap(offsetX)
    /\ pc' = "render"
    /\ UNCHANGED <<procVars, stderr, glVars, shVars, endVars, timeVars, unwrapped,
                   uniform, frames, frameWrites, frameDraws>>

\* glClearColor, glClear, glUseProgram, glBindVertexArray,
\* glUniform2f(offsetLocation, offsetX, 0.0f), glDrawArrays  (lines 167-175)
DrawMain ==
    /\ pc = "render"
    /\ badUse' = Touch(badUse, {"shaderProgram", "VAO"})
    /\ uniform' = offsetX
    /\ frameWrites' = Append(frameWrites, offsetX)
    /\ frameDraws' = Append(frameDraws, offsetX)
    /\ pc' = "ghost"
    /\ UNCHANGED <<procVars, stderr, created, deleted, attached, shVars, endVars,
                   timeVars, offsetX, unwrapped, frames>>

\* the ghost triangles (lines 178-187): the offsets of the extra draws
GhostAtHalf(x) ==
    IF 2 * x >= Unit THEN <<x - Two>>
    ELSE IF 2 * x <= -Unit THEN <<x + Two>>
    ELSE <<>>
GhostSameSide(x) ==
    IF 2 * x > Unit THEN <<x + Two>>
    ELSE IF 2 * x < -Unit THEN <<x - Two>>
    ELSE <<>>
GhostOffsets(x) ==
    IF 2 * x > Unit THEN <<x - Two>>
    ELSE IF 2 * x < -Unit THEN <<x + Two>>
    ELSE <<>>

\* each ghost is one glUniform2f followed by one glDrawArrays
DrawGhosts ==
    /\ pc = "ghost"
    /\ LET g == GhostOffsets(offsetX) IN
         /\ frameWrites' = frameWrites \o g
         /\ frameDraws' = frameDraws \o g
         /\ uniform' = IF g = <<>> THEN uniform ELSE g[Len(g)]
         /\ badUse' = IF g = <<>> THEN badUse
                      ELSE Touch(badUse, {"shaderProgram", "VAO"})
    /\ pc' = "swap"
    /\ UNCHANGED <<procVars, stderr, created, deleted, attached, shVars, endVars,
                   timeVars, offsetX, unwrapped, frames>>

\* glfwSwapBuffers, glfwPollEvents (lines 190-191): a close request delivered
\* by the window system sets the close flag
SwapAndPoll ==
    /\ pc = "swap"
    /\ \E closeRequested \in BOOLEAN :
         shouldClose' = IF closeRequested THEN TRUE ELSE shouldClose
    /\ pc' = "limit"
    /\ UNCHANGED <<window, glad, returned, exitStatus, stderr, glVars, shVars,
                   endVars, timeVars, frameVars>>

\* frame limiting (lines 194-199): sleep_for blocks for at least the
\* remainder of targetFrameTime = 1 / targetFPS seconds
FrameLimit ==
    /\ pc = "limit"
    /\ \E frameEndTime \in ClockReads :
         LET frameDuration == frameEndTime - currentTime IN
         IF frameDuration * targetFPS < TicksPerSec
         THEN \E slept \in 0 .. MaxAdvance :
                /\ (frameDuration + slept) * targetFPS >= TicksPerSec
                /\ now' = frameEndTime + slept
         ELSE now' = frameEndTime
    /\ pc' = "looptest"
    /\ UNCHANGED <<procVars, stderr, glVars, shVars, endVars, lastTime, currentTime,
                   frameVars>>

\* ---- shutdown: lines 202-209 ----

\* the handles deleted by the cleanup, in order (lines 203-205)
CleanupProgramFirst == <<"shaderProgram", "VAO", "VBO">>
CleanupOrder == <<"VAO", "VBO", "shaderProgram">>

\* glDeleteVertexArrays, glDeleteBuffers, glDeleteProgram
Cleanup ==
    /\ pc = "cleanup"
    /\ deleted' = DeleteAll(deleted, CleanupOrder)
    /\ released' = released \o CleanupOrder
    /\ pc' = "terminate"
    /\ UNCHANGED <<procVars, stderr, created, attached, badUse, shVars, terminates,
                   timeVars, frameVars>>

\* glfwTerminate(); return 0   (lines 208-209)
Terminate ==
    /\ pc = "terminate"
    /\ terminates' = terminates + 1
    /\ released' = Append(released, "glfw")
    /\ returned' = TRUE
    /\ exitStatus' = 0
    /\ pc' = "returned"
    /\ UNCHANGED <<window, glad, shouldClose, stderr, glVars, shVars, timeVars,
                   frameVars>>

Next ==
    \/ CreateWindow
    \/ LoadGL
    \/ CompileVertex
    \/ CompileFragment
    \/ LinkProgram
    \/ DeleteShaders
    \/ SetupBuffers
    \/ LocateUniform
    \/ LoopTest
    \/ ProcessInput
    \/ Advance
    \/ WrapOffset
    \/ DrawMain
    \/ DrawGhosts
    \/ SwapAndPoll
    \/ FrameLimit
    \/ Cleanup
    \/ Terminate

Spec == Init /\ [][Next]_vars

\* main() is the only thread and keeps executing until it returns
FairSpec == Spec /\ WF_vars(Next)

TypeOK ==
    /\ pc \in {"init", "loadgl", "vshader", "fshader", "link", "delshaders",
               "buffers", "locate", "looptest", "input", "timing", "wrap",
               "render", "ghost", "swap", "limit", "cleanup", "terminate",
               "returned"}
    /\ shouldClose \in BOOLEAN /\ returned \in BOOLEAN
    /\ exitStatus \in {0, -1}
    /\ frames \in 0 .. MaxFrames
    /\ offsetX \in Int /\ now \in Nat

\* ---- properties ----

InRange(x) == -Unit <= x /\ x < Unit
FrameDrawn == pc \in {"swap", "limit"}
CleanExit == returned /\ exitStatus = 0
Before(a, b) ==
    \E i, j \in 1 .. Len(released) : i < j /\ released[i] = a /\ released[j] = b
Reported(tag) == \E i \in 1 .. Len(stderr) : stderr[i].tag = tag

\* C1: after the offset update of a frame offsetX lies in [-1, 1), and the
\* main draw of every frame is issued with an offset in [-1, 1).
C1_OffsetInRange ==
    /\ pc # "wrap" => InRange(offsetX)
    /\ pc \in {"ghost", "swap", "limit"} =>
          /\ Len(frameDraws) >= 1
          /\ InRange(frameDraws[1])
C1_Witness == pc = "ghost" /\ unwrapped >= Unit /\ frameDraws = <<-Unit>>

\* C2 as claimed: when the un-wrapped offset x is >= 1 the frame uses x - 2,
\* otherwise x.
C2_WrapSubtractsTwo ==
    pc \in {"ghost", "swap", "limit"} =>
        /\ offsetX = IF unwrapped >= Unit THEN unwrapped - Two ELSE unwrapped
        /\ frameDraws[1] = offsetX
\* C2 amended: when the un-wrapped offset x is >= 1 the frame uses exactly -1
\* (the overshoot past 1 is dropped), otherwise x.
C2_WrapResets ==
    pc \in {"ghost", "swap", "limit"} =>
        /\ offsetX = IF unwrapped >= Unit THEN -Unit ELSE unwrapped
        /\ frameDraws[1] = offsetX
C2_Witness == pc = "ghost" /\ unwrapped > Unit /\ frameDraws[1] = -Unit

\* C3: main returns -1 exactly when window creation or function loading
\* failed, then with one failure message on stderr, no shader compiled and no
\* frame rendered; every other return is 0 and follows the close signal.
C3_ExitStatus ==
    returned =>
        /\ exitStatus = -1 <=> (window = "null" \/ glad = "failed")
        /\ exitStatus = -1 =>
              /\ \/ (window = "null" /\ stderr = <<Report("Failed to create GLFW window", 0)>>)
                 \/ (glad = "failed" /\ stderr = <<Report("Failed to initialize GLAD", 0)>>)
              /\ compiles = 0
              /\ \A h \in Handles : created[h] = 0
              /\ frames = 0
        /\ exitStatus # -1 => exitStatus = 0 /\ shouldClose
C3_Witness == returned /\ exitStatus = -1 /\ glad = "failed" /\ window = "valid"

\* C4: once the program is linked, every shader stage that failed to compile
\* and a program that failed to link has its log, of at most 512 characters,
\* on stderr, and main has not returned.
FailureTag(o) ==
    CASE o = "vertexShader"   -> "ERROR::VERTEX_SHADER::COMPILATION_FAILED"
      [] o = "fragmentShader" -> "ERROR::FRAGMENT_SHADER::COMPILATION_FAILED"
      [] o = "shaderProgram"  -> "ERROR::SHADER_PROGRAM::LINKING_FAILED"
C4_FailuresReported ==
    pc \in {"delshaders", "buffers", "locate", "looptest"} =>
        /\ ~returned
        /\ \A o \in Compiled : status[o] = "failed" =>
              \E i \in 1 .. Len(stderr) :
                  /\ stderr[i].tag = FailureTag(o)
                  /\ stderr[i].log <= InfoLogSize

\* C5 as claimed: on normal shutdown the vertex buffer is deleted before the
\* vertex array, the array before the program, the program before glfwTerminate.
C5_BuffersFirst ==
    CleanExit =>
        /\ Before("VBO", "VAO")
        /\ Before("VAO", "shaderProgram")
        /\ Before("shaderProgram", "glfw")
\* C5 amended: on normal shutdown the vertex array is deleted before the
\* vertex buffer, the buffer before the program, the program before
\* glfwTerminate.
C5_ArraysFirst ==
    CleanExit =>
        /\ Before("VAO", "VBO")
        /\ Before("VBO", "shaderProgram")
        /\ Before("shaderProgram", "glfw")
        /\ Len(released) = 4
C5_Witness == CleanExit /\ released = <<"VAO", "VBO", "shaderProgram", "glfw">>

\* C6: no handle is created or deleted twice, no handle is passed to a GL
\* call after its deletion, and on a return that follows the render loop each
\* of the five handles has been created once and deleted once.
C6_HandlesOnce ==
    /\ \A h \in Handles : created[h] <= 1 /\ deleted[h] <= created[h]
    /\ badUse = {}
    /\ pc \in {"looptest", "input", "timing", "wrap", "render", "ghost", "swap",
               "limit"} =>
          /\ \A h \in Handles : created[h] = 1
          /\ \A h \in {"shaderProgram", "VAO", "VBO"} : deleted[h] = 0
    /\ CleanExit => \A h \in Handles : created[h] = 1 /\ deleted[h] = 1
C6_Witness == CleanExit /\ frames >= 1 /\ deleted["shaderProgram"] = 1

\* C7 as claimed: each iteration of the loop writes the offset uniform once.
C7_OneWrite == FrameDrawn => Len(frameWrites) = 1
\* C7 amended: each iteration writes the offset uniform once when
\* -0.5 <= offsetX <= 0.5 and twice otherwise (the ghost draw writes it again).
C7_OneOrTwoWrites ==
    FrameDrawn =>
        Len(frameWrites) = IF 2 * offsetX > Unit \/ 2 * offsetX < -Unit THEN 2 ELSE 1
C7_Witness == FrameDrawn /\ Len(frameWrites) = 2 /\ 2 * offsetX > Unit

\* C8: each frame has one main draw at offsetX; a ghost is drawn at
\* offsetX - 2 when offsetX > 0.5, at offsetX + 2 when offsetX < -0.5, none
\* when -0.5 <= offsetX <= 0.5; never more than two extra draws.
C8_GhostDraws ==
    FrameDrawn =>
        /\ Len(frameDraws) >= 1 /\ Len(frameDraws) <= 3
        /\ frameDraws[1] = offsetX
        /\ 2 * offsetX > Unit => frameDraws = <<offsetX, offsetX - Two>>
        /\ 2 * offsetX < -Unit => frameDraws = <<offsetX, offsetX + Two>>
        /\ (2 * offsetX <= Unit /\ 2 * offsetX >= -Unit) => frameDraws = <<offsetX>>
C8_Witness == FrameDrawn /\ 2 * offsetX < -Unit /\ Len(frameDraws) = 2

\* C9: the phases follow initializing, running, shutting down; a set close
\* signal stays set, no frame begins while it is set, the cleanup is entered
\* only with the signal set, and once set main goes on to return 0.
Phase ==
    IF pc \in {"init", "loadgl", "vshader", "fshader", "link", "delshaders",
               "buffers", "locate"} THEN "initializing"
    ELSE IF pc \in {"looptest", "input", "timing", "wrap", "render", "ghost",
                    "swap", "limit"} THEN "running"
    ELSE IF pc \in {"cleanup", "terminate"} THEN "shutting down"
    ELSE "exited"
PhaseStep ==
    \/ Phase' = Phase
    \/ Phase = "initializing" /\ Phase' = "running"
    \/ Phase = "initializing" /\ Phase' = "exited" /\ exitStatus' = -1
    \/ Phase = "running" /\ Phase' = "shutting down"
    \/ Phase = "shutting down" /\ Phase' = "exited" /\ exitStatus' = 0
C9_Lifecycle ==
    /\ [][/\ PhaseStep
          /\ shouldClose => shouldClose'
          /\ frames' # frames => ~shouldClose]_vars
    /\ [](Phase = "shutting down" => shouldClose)
    /\ [](Phase = "running" /\ ~shouldClose => ~returned)
    /\ (shouldClose ~> CleanExit)
C9_Witness == CleanExit /\ shouldClose /\ frames >= 2

\* C10: whenever main has returned, glfwTerminate has been called exactly once.
C10_TerminatedOnReturn == returned => terminates = 1
====
